---- MODULE Spec2Model ----
(***************************************************************************)
(* The note server of src/server.py: the notes table, the APScheduler job  *)
(* store holding one-shot reminder jobs, the reminder dispatcher           *)
(* (send_reminder_email), the startup recovery sweep                       *)
(* (check_missed_reminders) and the HTTP handlers.                         *)
(*                                                                         *)
(* Time is a tick counter; one tick is 12 hours, so the sweep's            *)
(* timedelta(days=1) is 2 ticks.  The server clock is taken to be UTC.     *)
(* created_at / updated_at are not modelled.                               *)
(***************************************************************************)
EXTENDS Integers, Sequences, FiniteSets, TLC

\* ---------------------------------------------------------------- bounds
MaxNotes == 1
MaxPlainNotes == 2
MaxSweepNotes == 2
MaxTime == 2
MaxMail == 1

\* timedelta(days=1) in ticks of 12 hours
Lookback == 2

\* ---------------------------------------------------------------- values
\* SQL NULL / Python None in the reminder_datetime column
NoDate == -1
\* SQL NULL / Python None in the reminder_email column
NoEmail == "<null>"

Times == 0..MaxTime
Titles == {"Pay rent", "Buy milk"}
Contents == {"due today"}
Emails == {"a@b.com"}
OtherEmails == {"c@d.com"}

VARIABLES
    notes,      \* the note table: a function from the ids of the stored rows to rows
    nextId,     \* the next fresh uuid4 (ids are never reused)
    jobs,       \* the rows of the scheduler's SQLAlchemyJobStore: [id, run_date]
    now,        \* the clock, in ticks
    phase,      \* "down", "sweep" (the __main__ block before app.run), "serving"
    missed,     \* ids the running sweep has queried and not yet dispatched
    inflight,   \* dispatches between their validity check and the end of mail.send
    outbox,     \* the messages the mail transport has accepted, in order
    log,        \* the last line send_reminder_email wrote to app.logger, and its caller
    resp,       \* the last HTTP response: [op, id, status, body]
    tupleBinds, \* whether the database driver accepts the 1-tuple update_note stores
    quiet       \* the environment: no client request, no stop, no transport failure

vars == <<notes, nextId, jobs, now, phase, missed, inflight, outbox, log, resp,
          tupleBinds, quiet>>

\* ---------------------------------------------------------------- payloads
\* A JSON body is a function from the keys it carries to their values.
Get(data, k, default) == IF k \in DOMAIN data THEN data[k] ELSE default

OptKey(k, Vs) == {<<>>} \cup {k :> v : v \in Vs}

\* The columns is_archived and is_trashed are nullable Booleans.  A row in which
\* one of them holds NULL is a row without that field, and a body that carries
\* the JSON value null for one of them names it in body["null"].  (NULL in
\* is_pinned or has_reminder acts as false wherever the code reads it and is
\* not told apart; a None passed to Note(...) for a column with a default is
\* left out of the INSERT, so create stores the default.)
NullableFlags == {"is_archived", "is_trashed"}

Nulls(data) == Get(data, "null", {}) \cap NullableFlags

\* The SQL comparison `k = b`, which is not true of NULL
Is(row, k, b) == k \in DOMAIN row /\ row[k] = b

\* The attribute assignment row.k = v
Set(row, k, v) == (k :> v) @@ row

FlagDicts ==
    {a @@ b @@ c : a \in OptKey("is_pinned", BOOLEAN),
                   b \in OptKey("is_archived", BOOLEAN),
                   c \in OptKey("is_trashed", BOOLEAN)}

TextDicts ==
    {a @@ b : a \in OptKey("title", Titles), b \in OptKey("content", Contents)}

\* Bodies of clients that use the reminder fields
ReminderCreates ==
    {("title" :> "Pay rent") @@ ("content" :> "due today") @@ a @@ b @@ c :
        a \in OptKey("has_reminder", BOOLEAN),
        b \in OptKey("reminder_datetime", Times \cup {NoDate}),
        c \in OptKey("reminder_email", Emails \cup {"", NoEmail})}

ReminderUpdates ==
    {a @@ b @@ c :
        a \in OptKey("has_reminder", BOOLEAN),
        b \in OptKey("reminder_datetime", Times),
        c \in OptKey("email", Emails \cup {""}) \cup OptKey("reminder_email", Emails)}

\* Bodies of clients that also change the address of a reminder
ReaddressCreates ==
    {("title" :> "Pay rent") @@ ("content" :> "due today") @@ a @@ b @@ c :
        a \in OptKey("has_reminder", BOOLEAN),
        b \in OptKey("reminder_datetime", Times),
        c \in OptKey("reminder_email", Emails \cup OtherEmails)}

ReaddressUpdates ==
    {a @@ b @@ c :
        a \in OptKey("has_reminder", BOOLEAN),
        b \in OptKey("reminder_datetime", Times),
        c \in OptKey("email", Emails \cup OtherEmails)}

\* Bodies of clients that set a reminder when they create a note
SweepCreates ==
    {("title" :> "Pay rent") @@ ("content" :> "due today")
        @@ ("has_reminder" :> a) @@ ("reminder_datetime" :> b)
        @@ ("reminder_email" :> c) :
        a \in BOOLEAN, b \in Times, c \in Emails}

\* Bodies of clients that use the text and the flags only
PlainCreates == {t @@ f : t \in TextDicts, f \in FlagDicts}

PlainUpdates == {t @@ f : t \in TextDicts, f \in FlagDicts}

\* Bodies of clients that set is_archived and is_trashed directly, to true, to
\* false or (in an update) to null
FlagCreates ==
    {("title" :> "Pay rent") @@ ("content" :> "due today") @@ a @@ b :
        a \in OptKey("is_archived", BOOLEAN), b \in OptKey("is_trashed", BOOLEAN)}

NullFlagUpdates ==
    {a @@ b : a \in OptKey("is_archived", BOOLEAN), b \in OptKey("is_trashed", BOOLEAN)}
    \cup UNION {{("null" :> N) @@ a :
                    a \in UNION {OptKey(k, BOOLEAN) : k \in NullableFlags \ N} \cup {<<>>}} :
                 N \in (SUBSET NullableFlags) \ {{}}}

\* ---------------------------------------------------------------- Init
NoLog == [kind |-> "none", id |-> 0, who |-> "none"]
NoResp == [op |-> "none", id |-> 0, status |-> 0, body |-> {}]

Init ==
    /\ notes = <<>>
    /\ nextId = 1
    /\ jobs = {}
    /\ now = 0
    /\ phase = "down"
    /\ missed = {}
    /\ inflight = {}
    /\ outbox = <<>>
    /\ log = NoLog
    /\ resp = NoResp
    /\ tupleBinds \in BOOLEAN
    /\ quiet = FALSE

\* ---------------------------------------------------------------- the store
\* A create_note that stores no has_reminder
NewNote_unarmed(data) ==
    [title |-> data["title"],
     content |-> data["content"],
     is_pinned |-> Get(data, "is_pinned", FALSE),
     has_reminder |-> FALSE,
     reminder_datetime |->
        IF Get(data, "reminder_datetime", NoDate) # NoDate
        THEN data["reminder_datetime"] ELSE NoDate,
     reminder_email |-> Get(data, "reminder_email", NoEmail),
     is_archived |-> Get(data, "is_archived", FALSE),
     is_trashed |-> Get(data, "is_trashed", FALSE)]

\* Note(...): the row create_note builds from the request body
NewNote(data) ==
    [title |-> data["title"],
     content |-> data["content"],
     is_pinned |-> Get(data, "is_pinned", FALSE),
     has_reminder |-> Get(data, "has_reminder", FALSE),
     reminder_datetime |->
        IF Get(data, "reminder_datetime", NoDate) # NoDate
        THEN data["reminder_datetime"] ELSE NoDate,
     reminder_email |-> Get(data, "reminder_email", NoEmail),
     is_archived |-> Get(data, "is_archived", FALSE),
     is_trashed |-> Get(data, "is_trashed", FALSE)]

\* The attribute values update_note assigns.  reminder_datetime is assigned a
\* 1-tuple (the statement ends in a comma) and reminder_email is read from the
\* key "email".
Assigned(note, data) ==
    LET set == {k \in NullableFlags :
                   \/ k \in DOMAIN data
                   \/ k \notin Nulls(data) /\ k \in DOMAIN note}
    IN [k \in set |-> IF k \in DOMAIN data THEN data[k] ELSE note[k]] @@
       [title |-> Get(data, "title", note.title),
        content |-> Get(data, "content", note.content),
        is_pinned |-> Get(data, "is_pinned", note.is_pinned),
        has_reminder |-> Get(data, "has_reminder", note.has_reminder),
        reminder_datetime |->
           <<IF Get(data, "reminder_datetime", NoDate) # NoDate
             THEN data["reminder_datetime"] ELSE NoDate>>,
        reminder_email |-> Get(data, "email", note.reminder_email)]

\* db.session.commit() of the assigned values on a driver that binds a 1-tuple
\* as its parenthesised element; the row as reloaded after the commit.
Committed(assigned) ==
    [assigned EXCEPT !.reminder_datetime = assigned.reminder_datetime[1]]

Remove(table, id) == [i \in DOMAIN table \ {id} |-> table[i]]

\* ---------------------------------------------------------------- the scheduler
JobIds(js) == {j.id : j \in js}

\* A job store that takes a second job under an id it already holds
add_job_unkeyed(js, id, run_date) ==
    [raised |-> FALSE, jobs |-> js \cup {[id |-> id, run_date |-> run_date]}]

\* scheduler.add_job(id=..., trigger='date', run_date=...): replace_existing is
\* not passed, so a job whose id is already in the store raises
\* ConflictingIdError and the store is left as it was.
add_job(js, id, run_date) ==
    IF id \in JobIds(js)
    THEN [raised |-> TRUE, jobs |-> js]
    ELSE [raised |-> FALSE, jobs |-> js \cup {[id |-> id, run_date |-> run_date]}]

\* ---------------------------------------------------------------- HTTP handlers
Reply(op, id, status) == resp' = [op |-> op, id |-> id, status |-> status, body |-> {}]

create_note(data) ==
    /\ phase = "serving"
    /\ UNCHANGED <<now, phase, missed, inflight, outbox, log, tupleBinds, quiet>>
    /\ IF ~({"title", "content"} \subseteq DOMAIN data)
       THEN /\ Reply("create", 0, 500)
            /\ UNCHANGED <<notes, nextId, jobs>>
       ELSE /\ LET new_note == NewNote(data)
                   sched == IF new_note.has_reminder /\ new_note.reminder_datetime # NoDate
                            THEN add_job(jobs, nextId, new_note.reminder_datetime)
                            ELSE [raised |-> FALSE, jobs |-> jobs]
               IN /\ notes' = notes @@ (nextId :> new_note)
                  /\ nextId' = nextId + 1
                  /\ jobs' = sched.jobs
                  /\ Reply("create", nextId, IF sched.raised THEN 500 ELSE 201)

update_note(note_id, data) ==
    /\ phase = "serving"
    /\ UNCHANGED <<nextId, now, phase, missed, inflight, outbox, log, tupleBinds, quiet>>
    /\ IF note_id \notin DOMAIN notes
       THEN /\ Reply("update", note_id, 404)
            /\ UNCHANGED <<notes, jobs>>
       ELSE IF ~tupleBinds
       THEN /\ Reply("update", note_id, 500)
            /\ UNCHANGED <<notes, jobs>>
       ELSE LET note == Committed(Assigned(notes[note_id], data))
                sched == IF note.has_reminder /\ note.reminder_datetime # NoDate
                         THEN add_job(jobs, note_id, note.reminder_datetime)
                         ELSE [raised |-> FALSE, jobs |-> jobs]
            IN /\ notes' = [notes EXCEPT ![note_id] = note]
               /\ jobs' = sched.jobs
               /\ Reply("update", note_id, IF sched.raised THEN 500 ELSE 200)

\* A delete_note that also disarms the reminder
Trashed_disarms(note) ==
    Set(Set(Set(Set(note, "is_archived", FALSE), "is_pinned", FALSE),
            "is_trashed", TRUE), "has_reminder", FALSE)

\* The three flag handlers
Trashed(note) ==
    Set(Set(Set(note, "is_archived", FALSE), "is_pinned", FALSE), "is_trashed", TRUE)

\* An archive_note that leaves is_trashed as it was
Archived_keepsTrashed(note) ==
    Set(Set(note, "is_pinned", FALSE), "is_archived", TRUE)

Archived(note) ==
    Set(Set(Set(note, "is_pinned", FALSE), "is_trashed", FALSE), "is_archived", TRUE)

Restored(note) ==
    Set(Set(note, "is_trashed", FALSE), "is_archived", FALSE)

delete_note(note_id) ==
    /\ phase = "serving"
    /\ UNCHANGED <<nextId, jobs, now, phase, missed, inflight, outbox, log, tupleBinds, quiet>>
    /\ IF note_id \notin DOMAIN notes
       THEN Reply("trash", note_id, 404) /\ UNCHANGED notes
       ELSE /\ notes' = [notes EXCEPT ![note_id] = Trashed(@)]
            /\ Reply("trash", note_id, 200)

archive_note(note_id) ==
    /\ phase = "serving"
    /\ UNCHANGED <<nextId, jobs, now, phase, missed, inflight, outbox, log, tupleBinds, quiet>>
    /\ IF note_id \notin DOMAIN notes
       THEN Reply("archive", note_id, 404) /\ UNCHANGED notes
       ELSE /\ notes' = [notes EXCEPT ![note_id] = Archived(@)]
            /\ Reply("archive", note_id, 200)

\* A restore_note that answers 200 for an id it does not find
restore_note_lenient(note_id) ==
    /\ phase = "serving"
    /\ UNCHANGED <<nextId, jobs, now, phase, missed, inflight, outbox, log, tupleBinds, quiet>>
    /\ IF note_id \notin DOMAIN notes
       THEN Reply("restore", note_id, 200) /\ UNCHANGED notes
       ELSE /\ notes' = [notes EXCEPT ![note_id] = Restored(@)]
            /\ Reply("restore", note_id, 200)

restore_note(note_id) ==
    /\ phase = "serving"
    /\ UNCHANGED <<nextId, jobs, now, phase, missed, inflight, outbox, log, tupleBinds, quiet>>
    /\ IF note_id \notin DOMAIN notes
       THEN Reply("restore", note_id, 404) /\ UNCHANGED notes
       ELSE /\ notes' = [notes EXCEPT ![note_id] = Restored(@)]
            /\ Reply("restore", note_id, 200)

permanent_delete_note(note_id) ==
    /\ phase = "serving"
    /\ UNCHANGED <<nextId, jobs, now, phase, missed, inflight, outbox, log, tupleBinds, quiet>>
    /\ IF note_id \notin DOMAIN notes
       THEN Reply("permanent_delete", note_id, 404) /\ UNCHANGED notes
       ELSE /\ notes' = Remove(notes, note_id)
            /\ Reply("permanent_delete", note_id, 200)

get_single_note(note_id) ==
    /\ phase = "serving"
    /\ Reply("get", note_id, IF note_id \in DOMAIN notes THEN 200 ELSE 404)
    /\ UNCHANGED <<notes, nextId, jobs, now, phase, missed, inflight, outbox, log,
                   tupleBinds, quiet>>

\* A get_notes that filters on is_trashed only
ActiveRows_withArchived ==
    {i \in DOMAIN notes : Is(notes[i], "is_trashed", FALSE)}

\* The queries of the list views, as the sets of ids of the rows they return
ActiveRows ==
    {i \in DOMAIN notes : /\ Is(notes[i], "is_archived", FALSE)
                          /\ Is(notes[i], "is_trashed", FALSE)}

ArchivedRows ==
    {i \in DOMAIN notes : /\ Is(notes[i], "is_archived", TRUE)
                          /\ Is(notes[i], "is_trashed", FALSE)}

TrashedRows ==
    {i \in DOMAIN notes : Is(notes[i], "is_trashed", TRUE)}

ReminderRows ==
    {i \in DOMAIN notes : /\ notes[i].has_reminder = TRUE
                          /\ Is(notes[i], "is_archived", FALSE)
                          /\ Is(notes[i], "is_trashed", FALSE)}

List(op, rows) ==
    /\ phase = "serving"
    /\ resp' = [op |-> op, id |-> 0, status |-> 200, body |-> rows]
    /\ UNCHANGED <<notes, nextId, jobs, now, phase, missed, inflight, outbox, log,
                   tupleBinds, quiet>>

get_notes == List("notes", ActiveRows)

get_archived_notes == List("archives", ArchivedRows)

get_trashed_notes == List("trash", TrashedRows)

get_reminders == List("reminders", ReminderRows)

\* ---------------------------------------------------------------- the dispatcher
\* A dispatcher that does not look at has_reminder
Sendable_anyFlag(id) ==
    /\ id \in DOMAIN notes
    /\ notes[id].reminder_email \notin {NoEmail, ""}

\* `note and note.has_reminder and note.reminder_email`
Sendable(id) ==
    /\ id \in DOMAIN notes
    /\ notes[id].has_reminder = TRUE
    /\ notes[id].reminder_email \notin {NoEmail, ""}

\* The Message send_reminder_email builds from the row it loaded; who (the calling
\* thread), note (the loaded row's id) and hadDate (whether the loaded
\* reminder_datetime was set) are the call's own state.
Loaded(who, id) ==
    [who |-> who, note |-> id,
     to |-> notes[id].reminder_email,
     subject |-> "Reminder: " \o notes[id].title,
     body |-> notes[id].content,
     hadDate |-> notes[id].reminder_datetime # NoDate]

\* The row after `note.has_reminder = False; note.reminder_datetime = None` is
\* flushed: only the attributes that differ from the loaded ones are written.
Cleared(note, f) ==
    [note EXCEPT !.has_reminder = FALSE,
                 !.reminder_datetime = IF f.hadDate THEN NoDate ELSE @]

\* The last MaxMail messages the transport accepted
Deliver(box, msg) ==
    IF Len(box) < MaxMail THEN Append(box, msg) ELSE Append(Tail(box), msg)

\* send_reminder_email up to mail.send: load the row, test it, build the message
BeginDispatch(who, id) ==
    IF Sendable(id)
    THEN /\ inflight' = inflight \cup {Loaded(who, id)}
         /\ UNCHANGED log
    ELSE /\ log' = [kind |-> "invalid", id |-> id, who |-> who]
         /\ UNCHANGED inflight

\* mail.send returns: the reminder is cleared and committed.  The commit fails
\* (and is logged as a failure) when the row has been deleted meanwhile.
SendSucceeds(f) ==
    /\ f \in inflight
    /\ inflight' = inflight \ {f}
    /\ outbox' = Deliver(outbox, [note |-> f.note, to |-> f.to, subject |-> f.subject,
                                  body |-> f.body])
    /\ IF f.note \in DOMAIN notes
       THEN /\ notes' = [notes EXCEPT ![f.note] = Cleared(@, f)]
            /\ log' = [kind |-> "sent", id |-> f.note, who |-> f.who]
       ELSE /\ UNCHANGED notes
            /\ log' = [kind |-> "failed", id |-> f.note, who |-> f.who]
    /\ UNCHANGED <<nextId, jobs, now, phase, missed, resp, tupleBinds, quiet>>

\* A dispatcher that clears the reminder before it sends
SendFails_cleared(f) ==
    /\ ~quiet
    /\ f \in inflight
    /\ inflight' = inflight \ {f}
    /\ log' = [kind |-> "failed", id |-> f.note, who |-> f.who]
    /\ notes' = IF f.note \in DOMAIN notes
                THEN [notes EXCEPT ![f.note].has_reminder = FALSE,
                                   ![f.note].reminder_datetime = NoDate]
                ELSE notes
    /\ UNCHANGED <<nextId, jobs, now, phase, missed, outbox, resp, tupleBinds, quiet>>

\* mail.send raises: the exception is caught and logged
SendFails(f) ==
    /\ ~quiet
    /\ f \in inflight
    /\ inflight' = inflight \ {f}
    /\ log' = [kind |-> "failed", id |-> f.note, who |-> f.who]
    /\ UNCHANGED <<notes, nextId, jobs, now, phase, missed, outbox, resp, tupleBinds, quiet>>

\* ---------------------------------------------------------------- the scheduler thread
\* A job whose run_date has come is taken from the store (a date trigger has no
\* next run).  It is run unless it is late by more than misfire_grace_time (the
\* default, 1 second: less than a tick) or an instance of the same job id is
\* still running (max_instances, default 1).
TimerFire(job) ==
    /\ phase # "down"
    /\ job \in jobs
    /\ job.run_date <= now
    /\ jobs' = jobs \ {job}
    /\ IF job.run_date < now \/ (\E f \in inflight : f.who = "sched" /\ f.note = job.id)
       THEN UNCHANGED <<inflight, log>>
       ELSE BeginDispatch("sched", job.id)
    /\ UNCHANGED <<notes, nextId, now, phase, missed, outbox, resp, tupleBinds, quiet>>

\* ---------------------------------------------------------------- startup
\* A sweep without the lower bound on reminder_datetime
missed_reminders_unbounded(current_time) ==
    {i \in DOMAIN notes : /\ notes[i].has_reminder = TRUE
                          /\ notes[i].reminder_datetime # NoDate
                          /\ notes[i].reminder_datetime <= current_time}

\* The query of check_missed_reminders at current_time
missed_reminders(current_time) ==
    {i \in DOMAIN notes : /\ notes[i].has_reminder = TRUE
                          /\ notes[i].reminder_datetime # NoDate
                          /\ notes[i].reminder_datetime <= current_time
                          /\ notes[i].reminder_datetime > current_time - Lookback}

\* The process starts: the scheduler starts on import, then __main__ runs the
\* query of check_missed_reminders.
Start ==
    /\ phase = "down"
    /\ phase' = "sweep"
    /\ missed' = missed_reminders(now)
    /\ UNCHANGED <<notes, nextId, jobs, now, inflight, outbox, log, resp, tupleBinds, quiet>>

SweepBusy == \E f \in inflight : f.who = "sweep"

\* One iteration of the sweep's loop, in the order the store returned the rows
SweepStep(id) ==
    /\ phase = "sweep"
    /\ ~SweepBusy
    /\ id \in missed
    /\ missed' = missed \ {id}
    /\ BeginDispatch("sweep", id)
    /\ UNCHANGED <<notes, nextId, jobs, now, phase, outbox, resp, tupleBinds, quiet>>

\* An app.run that does not wait for the sweep to return
Serve_early ==
    /\ phase = "sweep"
    /\ phase' = "serving"
    /\ UNCHANGED <<notes, nextId, jobs, now, missed, inflight, outbox, log, resp,
                   tupleBinds, quiet>>

\* app.run: the sweep has returned and requests are served
Serve ==
    /\ phase = "sweep"
    /\ ~SweepBusy
    /\ missed = {}
    /\ phase' = "serving"
    /\ UNCHANGED <<notes, nextId, jobs, now, missed, inflight, outbox, log, resp,
                   tupleBinds, quiet>>

\* The process stops or is killed; the tables survive, the threads do not
Stop ==
    /\ ~quiet
    /\ phase # "down"
    /\ phase' = "down"
    /\ missed' = {}
    /\ inflight' = {}
    /\ UNCHANGED <<notes, nextId, jobs, now, outbox, log, resp, tupleBinds, quiet>>

\* Time passes.  A running scheduler wakes up at each run_date, so the clock
\* does not pass a due job while the process is up.
Tick ==
    /\ now < MaxTime
    /\ phase = "down" \/ \A j \in jobs : j.run_date > now
    /\ now' = now + 1
    /\ UNCHANGED <<notes, nextId, jobs, phase, missed, inflight, outbox, log, resp,
                   tupleBinds, quiet>>

\* ---------------------------------------------------------------- the environment
\* From here on no client sends a request, nobody stops the process and the
\* mail transport accepts every message.
Quiesce ==
    /\ ~quiet
    /\ quiet' = TRUE
    /\ UNCHANGED <<notes, nextId, jobs, now, phase, missed, inflight, outbox, log, resp,
                   tupleBinds>>

\* Clients send requests, for ids they were given and for ids that do not exist;
\* at most MaxIds notes are ever created.
Creates(Bodies, MaxIds) ==
    \E data \in Bodies : ~quiet /\ nextId <= MaxIds /\ create_note(data)

Updates(Bodies, MaxIds) ==
    \E note_id \in 1..MaxIds, data \in Bodies : ~quiet /\ update_note(note_id, data)

Deletes(MaxIds) ==
    \E note_id \in 1..MaxIds : ~quiet /\ permanent_delete_note(note_id)

Moves(MaxIds) ==
    \/ \E note_id \in 1..MaxIds : ~quiet /\ delete_note(note_id)
    \/ \E note_id \in 1..MaxIds : ~quiet /\ archive_note(note_id)
    \/ \E note_id \in 1..MaxIds : ~quiet /\ restore_note(note_id)

Reads(MaxIds) ==
    \E note_id \in 1..MaxIds : ~quiet /\ get_single_note(note_id)

Lists ==
    \/ ~quiet /\ get_notes
    \/ ~quiet /\ get_archived_notes
    \/ ~quiet /\ get_trashed_notes

\* What the process does by itself, and the clock
Runs ==
    \/ Start
    \/ \E id \in missed : SweepStep(id)
    \/ Serve
    \/ \E job \in jobs : TimerFire(job)
    \/ \E f \in inflight : SendSucceeds(f)
    \/ \E f \in inflight : SendFails(f)
    \/ Stop
    \/ Tick

\* The server with clients that use the reminder fields
Next ==
    \/ Creates(ReminderCreates, MaxNotes)
    \/ Updates(ReminderUpdates, MaxNotes)
    \/ Deletes(MaxNotes)
    \/ Moves(MaxNotes)
    \/ Reads(MaxNotes)
    \/ Runs

Spec == Init /\ [][Next]_vars

\* The server with clients that change the address of a reminder, in an
\* environment that may fall quiet for good, with a scheduler thread that runs
\* every due job, a sweep that goes on, a transport that answers and a clock
\* that advances.
NextQuiet ==
    \/ Creates(ReaddressCreates, MaxNotes)
    \/ Updates(ReaddressUpdates, MaxNotes)
    \/ Deletes(MaxNotes)
    \/ Runs
    \/ Quiesce

SpecQuiet ==
    /\ Init
    /\ [][NextQuiet]_vars
    /\ WF_vars(\E job \in jobs : TimerFire(job))
    /\ WF_vars(\E f \in inflight : SendSucceeds(f) \/ SendFails(f))
    /\ WF_vars(\E id \in missed : SweepStep(id))
    /\ WF_vars(Serve)
    /\ WF_vars(Tick)

\* The server with clients that create notes with reminders and delete them
NextSweep ==
    \/ Creates(SweepCreates, MaxSweepNotes)
    \/ Deletes(MaxSweepNotes)
    \/ Runs

SpecSweep == Init /\ [][NextSweep]_vars

\* The server with clients that use the text and the flags only: no reminder
\* is ever armed, so the scheduler and the dispatcher have nothing to do.
NextPlain ==
    \/ Creates(PlainCreates, MaxPlainNotes)
    \/ Updates(PlainUpdates, MaxPlainNotes)
    \/ Deletes(MaxPlainNotes)
    \/ Moves(MaxPlainNotes)
    \/ Reads(MaxPlainNotes)
    \/ Lists
    \/ Start
    \/ Serve
    \/ Stop

SpecPlain == Init /\ [][NextPlain]_vars

\* The server with clients that create notes with reminders, move them between
\* the views and read the reminders view
NextReminders ==
    \/ Creates(ReminderCreates, MaxNotes)
    \/ Moves(MaxNotes)
    \/ ~quiet /\ get_reminders
    \/ Runs

SpecReminders == Init /\ [][NextReminders]_vars

\* The server with clients that set the two view flags directly and read the
\* three list views
NextViews ==
    \/ Creates(FlagCreates, MaxPlainNotes)
    \/ Updates(NullFlagUpdates, MaxPlainNotes)
    \/ Deletes(MaxPlainNotes)
    \/ Moves(MaxPlainNotes)
    \/ Lists
    \/ Start
    \/ Serve
    \/ Stop

SpecViews == Init /\ [][NextViews]_vars

\* ================================================================ claims
JobsOf(js, id) == {j \in js : j.id = id}

\* C1 (as stated): when a note with an address has a pending timer due at
\* t1 > now and an update schedules a reminder at another time t2 (the update
\* leaves has_reminder true and carries reminder_datetime = t2), the update
\* succeeds and the note's only pending timer is then due at t2, so that the
\* one dispatch is at t2.  Stated for the builds whose driver lets update_note
\* commit at all.
C1_SecondScheduleReplaces ==
    [][\A i \in 1..MaxNotes, data \in ReminderUpdates :
          (/\ resp'.op = "update"
           /\ tupleBinds
           /\ i \in DOMAIN notes
           /\ notes[i].reminder_email \in Emails
           /\ \E j \in jobs : j.id = i /\ now < j.run_date
           /\ Get(data, "has_reminder", notes[i].has_reminder) = TRUE
           /\ "reminder_datetime" \in DOMAIN data
           /\ \A j \in jobs : j.id = i => j.run_date # data["reminder_datetime"]
           /\ update_note(i, data))
          => /\ resp'.status = 200
             /\ JobsOf(jobs', i) = {[id |-> i, run_date |-> data["reminder_datetime"]]}
      ]_vars

\* C2: in every reachable state the job store holds at most one pending timer
\* per note id.
C2_AtMostOneTimerPerNote ==
    \A j1 \in jobs, j2 \in jobs : j1.id = j2.id => j1 = j2

\* A second scheduling was attempted for a note whose timer is pending at
\* another time, and one timer is pending.
C2_Witness ==
    /\ resp.op = "update" /\ resp.status = 500 /\ tupleBinds
    /\ resp.id \in DOMAIN notes
    /\ notes[resp.id].has_reminder = TRUE
    /\ notes[resp.id].reminder_datetime # NoDate
    /\ \E j \in jobs : j.id = resp.id /\ j.run_date # notes[resp.id].reminder_datetime

\* C3 (as stated): a create whose body carries exactly title, content,
\* reminder_datetime and reminder_email stores has_reminder = true and
\* registers a timer for the new note due at reminder_datetime.
C3_CreateWithoutFlagArms ==
    [][\A data \in ReminderCreates :
          (/\ nextId' = nextId + 1
           /\ DOMAIN data = {"title", "content", "reminder_datetime", "reminder_email"}
           /\ data["reminder_datetime"] # NoDate
           /\ data["reminder_email"] \in Emails
           /\ create_note(data))
          => /\ notes'[nextId].has_reminder = TRUE
             /\ [id |-> nextId, run_date |-> data["reminder_datetime"]] \in jobs'
      ]_vars

\* C3 (amended): a create whose body carries title, content, has_reminder =
\* true, reminder_datetime and reminder_email stores has_reminder = true and
\* the reminder_datetime, answers 201 and registers a timer for the new note
\* due at reminder_datetime.
C3_CreateWithFlagArms ==
    [][\A data \in ReminderCreates :
          (/\ nextId' = nextId + 1
           /\ DOMAIN data = {"title", "content", "has_reminder", "reminder_datetime",
                             "reminder_email"}
           /\ data["has_reminder"] = TRUE
           /\ data["reminder_datetime"] # NoDate
           /\ data["reminder_email"] \in Emails
           /\ create_note(data))
          => /\ notes'[nextId].has_reminder = TRUE
             /\ notes'[nextId].reminder_datetime = data["reminder_datetime"]
             /\ notes'[nextId].reminder_email = data["reminder_email"]
             /\ resp'.status = 201
             /\ JobsOf(jobs', nextId) = {[id |-> nextId, run_date |-> data["reminder_datetime"]]}
      ]_vars

\* A create has just answered 201 for a note that is armed for a@b.com and
\* whose timer is pending at its reminder_datetime.
C3_Witness ==
    /\ resp.op = "create" /\ resp.status = 201
    /\ resp.id \in DOMAIN notes
    /\ notes[resp.id].has_reminder = TRUE
    /\ notes[resp.id].reminder_email = "a@b.com"
    /\ [id |-> resp.id, run_date |-> notes[resp.id].reminder_datetime] \in jobs

ReminderCleared(i) ==
    /\ i \in DOMAIN notes
    /\ notes[i].has_reminder = FALSE
    /\ notes[i].reminder_datetime = NoDate

LastMailIs(i, e) ==
    /\ Len(outbox) > 0
    /\ outbox[Len(outbox)].note = i
    /\ outbox[Len(outbox)].to = e

\* Note i is armed for the address e, a timer is pending for it, the process
\* is up and the environment has fallen quiet.
C4_ArmedPending(i, e) ==
    /\ quiet /\ phase # "down"
    /\ i \in DOMAIN notes
    /\ notes[i].has_reminder = TRUE
    /\ notes[i].reminder_datetime # NoDate
    /\ notes[i].reminder_email = e
    /\ JobsOf(jobs, i) # {}

\* C4 (as stated): if a note is armed with a pending timer, the process stays
\* up, no request changes the note and the send succeeds, then eventually a
\* notification is sent to reminder_email, and the note has has_reminder =
\* false and reminder_datetime = null from then on.
C4_ArmedPendingIsSent ==
    \A i \in 1..MaxNotes, e \in Emails \cup OtherEmails :
        /\ C4_ArmedPending(i, e) ~> (LastMailIs(i, e) /\ ReminderCleared(i))
        /\ C4_ArmedPending(i, e) ~> []ReminderCleared(i)

\* C4 (amended): the same, for a pending timer whose due time has not passed
\* and a note no dispatch of which is already running.
C4_ArmedNotYetDueIsSent ==
    \A i \in 1..MaxNotes, e \in Emails \cup OtherEmails :
        LET Ready == /\ C4_ArmedPending(i, e)
                     /\ \A j \in JobsOf(jobs, i) : j.run_date >= now
                     /\ \A f \in inflight : f.note # i
        IN /\ Ready ~> (LastMailIs(i, e) /\ ReminderCleared(i))
           /\ Ready ~> []ReminderCleared(i)

\* C4 with only the first of the two conditions added
C4_Probe_NotYetDue ==
    \A i \in 1..MaxNotes, e \in Emails \cup OtherEmails :
        LET Ready == /\ C4_ArmedPending(i, e)
                     /\ \A j \in JobsOf(jobs, i) : j.run_date >= now
        IN Ready ~> (LastMailIs(i, e) /\ ReminderCleared(i))

\* In the quiet environment the scheduler's dispatch has sent the reminder to
\* c@d.com and cleared it.
C4_Witness ==
    /\ quiet /\ phase # "down"
    /\ log = [kind |-> "sent", id |-> 1, who |-> "sched"]
    /\ LastMailIs(1, "c@d.com")
    /\ ReminderCleared(1)
    /\ jobs = {} /\ inflight = {}

\* C5: a dispatch (by a due timer or by the sweep) for an id that is not in
\* the store, or whose note has has_reminder = false, or whose reminder_email
\* is null or empty, sends nothing, starts no send and leaves every stored
\* note as it was.
C5_InvalidDispatchIsNoOp ==
    [][(jobs' # jobs \/ missed' # missed) =>
       \A id \in 1..MaxNotes :
          (/\ \/ id \notin DOMAIN notes
              \/ notes[id].has_reminder = FALSE
              \/ notes[id].reminder_email \in {NoEmail, ""}
           /\ \/ SweepStep(id)
              \/ \E job \in jobs : /\ job.id = id /\ job.run_date = now
                                   /\ \A f \in inflight : ~(f.who = "sched" /\ f.note = id)
                                   /\ TimerFire(job))
          => /\ outbox' = outbox
             /\ inflight' = inflight
             /\ notes' = notes
      ]_vars

\* A timer has fired on time for a note that was permanently deleted, and
\* nothing was sent.
C5_Witness ==
    /\ log = [kind |-> "invalid", id |-> 1, who |-> "sched"]
    /\ resp.op = "permanent_delete" /\ resp.status = 200
    /\ 1 \notin DOMAIN notes
    /\ outbox = <<>> /\ inflight = {}

\* C6: the step in which mail.send fails leaves every note (has_reminder,
\* reminder_datetime and reminder_email included) as it was, sends nothing,
\* changes no HTTP response and leaves the process running.
C6_SendFailureKeepsReminder ==
    [][(log'.kind = "failed") =>
       \A f \in inflight :
          SendFails(f) => /\ notes' = notes
                          /\ outbox' = outbox
                          /\ resp' = resp
                          /\ phase' = phase
      ]_vars

\* A send has failed and the note is still armed, with no timer left.
C6_Witness ==
    /\ log.kind = "failed" /\ log.id \in DOMAIN notes
    /\ notes[log.id].has_reminder = TRUE
    /\ notes[log.id].reminder_datetime # NoDate
    /\ notes[log.id].reminder_email \in Emails
    /\ JobsOf(jobs, log.id) = {}
    /\ inflight = {} /\ outbox = <<>>

\* C7: the sweep started at time now selects exactly the stored notes with
\* has_reminder = true and now - 24h < reminder_datetime <= now; while it
\* runs the selection only shrinks, by one note at a time and only when the
\* sweep calls the dispatcher for that note; the sweep calls the dispatcher
\* for no other note; and it returns only when the selection is used up.
C7_SweepDispatchesExactlyMissed ==
    [][/\ (phase = "down" /\ phase' # "down") =>
             missed' = {i \in DOMAIN notes :
                           /\ notes[i].has_reminder = TRUE
                           /\ notes[i].reminder_datetime # NoDate
                           /\ now - Lookback < notes[i].reminder_datetime
                           /\ notes[i].reminder_datetime <= now}
       /\ (phase = "sweep" /\ phase' = "sweep" /\ missed' # missed) =>
             \E id \in missed :
                /\ missed' = missed \ {id}
                /\ \/ \E f \in inflight' \ inflight : f.who = "sweep" /\ f.note = id
                   \/ /\ log' = [kind |-> "invalid", id |-> id, who |-> "sweep"]
                      /\ inflight' = inflight
       /\ \A f \in inflight' \ inflight :
             f.who = "sweep" => /\ phase = "sweep"
                                /\ f.note \in missed
                                /\ f.note \notin missed'
       /\ (log' # log /\ log'.who = "sweep" /\ log'.kind = "invalid") =>
             phase = "sweep" /\ log'.id \in missed /\ log'.id \notin missed'
       /\ (phase = "sweep" /\ phase' = "serving") => missed = {}
      ]_vars

\* The sweep is sending the reminder of one note while another stored note,
\* armed with a reminder_datetime at or before now - 24h, was left out.
C7_Witness ==
    /\ phase = "sweep"
    /\ \E f \in inflight :
          /\ f.who = "sweep"
          /\ \E i \in DOMAIN notes :
                /\ i # f.note
                /\ i \notin missed
                /\ notes[i].has_reminder = TRUE
                /\ notes[i].reminder_datetime # NoDate
                /\ notes[i].reminder_datetime <= now - Lookback

\* C8 (as stated): an update of an existing note sets each field present in
\* the payload to the supplied value and leaves every absent field at its
\* previous value.  Stated for the builds whose driver lets update_note commit
\* at all.
C8_UpdateAppliesPresentFields ==
    [][\A i \in 1..MaxNotes, data \in ReminderUpdates :
          (/\ resp'.op = "update"
           /\ tupleBinds
           /\ i \in DOMAIN notes
           /\ update_note(i, data))
          => \A k \in {"title", "content", "is_pinned", "is_archived", "is_trashed",
                       "has_reminder", "reminder_datetime", "reminder_email"} :
                notes'[i][k] = IF k \in DOMAIN data THEN data[k] ELSE notes[i][k]
      ]_vars

\* C9: for an existing note in any flag state, trash leaves is_trashed = true,
\* is_pinned = false, is_archived = false; archive leaves is_archived = true,
\* is_pinned = false, is_trashed = false; restore leaves is_trashed = false
\* and is_archived = false.
C9_FlagHandlers ==
    [][\A i \in 1..MaxPlainNotes :
          i \in DOMAIN notes =>
             /\ delete_note(i) => /\ notes'[i].is_trashed = TRUE
                                  /\ notes'[i].is_pinned = FALSE
                                  /\ notes'[i].is_archived = FALSE
             /\ archive_note(i) => /\ notes'[i].is_archived = TRUE
                                   /\ notes'[i].is_pinned = FALSE
                                   /\ notes'[i].is_trashed = FALSE
             /\ restore_note(i) => /\ notes'[i].is_trashed = FALSE
                                   /\ notes'[i].is_archived = FALSE
      ]_vars

\* A note was archived, and so taken out of the trash, while another stored
\* note is pinned and in the trash.
C9_Witness ==
    /\ resp.op = "archive" /\ resp.status = 200
    /\ resp.id \in DOMAIN notes
    /\ notes[resp.id].is_archived = TRUE
    /\ notes[resp.id].is_trashed = FALSE
    /\ \E i \in DOMAIN notes : i # resp.id /\ notes[i].is_trashed /\ notes[i].is_pinned

\* C10: the last answer of GET /notes, as long as no later request was
\* answered, holds no trashed note, no archived note, and every stored note
\* with is_trashed = false and is_archived = false.
C10_ActiveListing ==
    resp.op = "notes" =>
       /\ \A i \in resp.body : /\ i \in DOMAIN notes
                               /\ notes[i].is_trashed = FALSE
                               /\ notes[i].is_archived = FALSE
       /\ \A i \in DOMAIN notes :
             (notes[i].is_trashed = FALSE /\ notes[i].is_archived = FALSE)
                => i \in resp.body

\* GET /notes answered with one note while another stored note is archived
C10_Witness ==
    /\ resp.op = "notes"
    /\ resp.body # {}
    /\ \E i \in DOMAIN notes : i \notin resp.body /\ notes[i].is_archived = TRUE

\* An id that was given to a note which has since been permanently deleted
\* (ids are handed out once, and permanent_delete_note alone removes a row)
Deleted(i) == i < nextId /\ i \notin DOMAIN notes

\* C11: once a note has been permanently deleted, every later get, update,
\* trash, archive, restore and permanent delete of its id answers 404 and
\* leaves the store and the timers as they were, and no later step brings the
\* id back.
C11_DeletedStaysNotFound ==
    [][\A i \in 1..MaxPlainNotes :
          Deleted(i) =>
             /\ i \notin DOMAIN notes'
             /\ (\/ get_single_note(i)
                 \/ \E data \in PlainUpdates : update_note(i, data)
                 \/ delete_note(i)
                 \/ archive_note(i)
                 \/ restore_note(i)
                 \/ permanent_delete_note(i))
                => /\ resp'.id = i
                   /\ resp'.status = 404
                   /\ notes' = notes
                   /\ jobs' = jobs
      ]_vars

\* Note 1 was permanently deleted, a note was created after it under a new
\* id, and a later restore of id 1 was answered 404.
C11_Witness ==
    /\ Deleted(1)
    /\ 2 \in DOMAIN notes
    /\ resp = [op |-> "restore", id |-> 1, status |-> 404, body |-> {}]

\* C12 (as stated): every note in an answer of GET /reminders is, when the
\* answer is made, not archived, not trashed, and armed: has_reminder = true,
\* reminder_datetime not null and reminder_email not null.
C12_RemindersAreArmed ==
    [][(resp'.op = "reminders" /\ get_reminders) =>
          \A i \in resp'.body :
             /\ i \in DOMAIN notes
             /\ notes[i].is_archived = FALSE
             /\ notes[i].is_trashed = FALSE
             /\ notes[i].has_reminder = TRUE
             /\ notes[i].reminder_datetime # NoDate
             /\ notes[i].reminder_email # NoEmail
      ]_vars

\* C13 (as stated): a dispatch starts a send only for a note that, when the
\* dispatcher loads it, has has_reminder = true, a reminder_datetime that is
\* not null and a reminder_email that is not null.
C13_DispatchSendsOnlyArmed ==
    [][\A f \in inflight' \ inflight :
          /\ f.note \in DOMAIN notes
          /\ notes[f.note].has_reminder = TRUE
          /\ notes[f.note].reminder_datetime # NoDate
          /\ notes[f.note].reminder_email # NoEmail
      ]_vars

\* C14 (as stated): every pending timer refers to a note that exists, has
\* has_reminder = true and has a reminder_datetime equal to the timer's due
\* time.
C14_TimersMatchStore ==
    \A j \in jobs :
       /\ j.id \in DOMAIN notes
       /\ notes[j.id].has_reminder = TRUE
       /\ notes[j.id].reminder_datetime = j.run_date

\* A stored note whose reminder has an address and is older than the lookback
\* window
Stale(i) ==
    /\ i \in DOMAIN notes
    /\ notes[i].has_reminder = TRUE
    /\ notes[i].reminder_email \notin {NoEmail, ""}
    /\ notes[i].reminder_datetime # NoDate
    /\ notes[i].reminder_datetime <= now - Lookback

\* C15 (as stated): a note that at process start has has_reminder = true and
\* reminder_datetime <= now - 24h is dispatched neither by the sweep nor by
\* the scheduler: when the process starts the sweep does not select it and
\* the job store holds no timer for it that the scheduler will still run
\* (a timer that is past due is dropped, one that is not will fire); and the
\* sweep dispatches nothing it did not select.
C15_StaleNeverDispatched ==
    [][/\ (phase = "down" /\ phase' # "down") =>
             \A i \in DOMAIN notes :
                Stale(i) => /\ i \notin missed'
                            /\ \A j \in jobs : j.id = i => j.run_date < now
       /\ \A f \in inflight' \ inflight : f.who = "sweep" => f.note \in missed
      ]_vars

\* C16 (as stated): when a send fails for a note that is still stored, the
\* note is left armed (has_reminder = true, reminder_datetime and
\* reminder_email set) with no pending timer; and a later send for a note is
\* attempted only by a timer taken from the job store or by the sweep of a
\* process start, so that with no timer pending nothing retries.
C16_FailedSendLeavesNoTimer ==
    [][/\ (log'.kind = "failed") =>
             \A f \in inflight :
                (SendFails(f) /\ f.note \in DOMAIN notes) =>
                   /\ notes'[f.note].has_reminder = TRUE
                   /\ notes'[f.note].reminder_datetime # NoDate
                   /\ notes'[f.note].reminder_email # NoEmail
                   /\ JobsOf(jobs', f.note) = {}
       /\ \A f \in inflight' \ inflight :
             \/ f.who = "sweep" /\ phase = "sweep" /\ f.note \in missed
             \/ f.who = "sched" /\ \E j \in jobs \ jobs' : j.id = f.note
      ]_vars

\* C17: the sweep runs once per process start and is over before any request
\* is handled: a sweep begins only at a process start, its selection is made
\* there and only shrinks afterwards, the process goes from the sweep to
\* serving only when the selection is used up and the sweep's last dispatch
\* has returned, never back from serving to the sweep, and every step in
\* which a handler answers a request is taken while serving, with no sweep
\* under way.
C17_SweepOnceBeforeRequests ==
    [][/\ (phase' = "sweep" /\ phase # "sweep") => phase = "down"
       /\ (phase = "sweep" /\ phase' = "sweep") => missed' \subseteq missed
       /\ (phase = "sweep" /\ phase' = "serving") => (missed = {} /\ ~SweepBusy)
       /\ (phase = "serving") => (/\ phase' \in {"serving", "down"}
                                  /\ missed = {} /\ missed' = {}
                                  /\ ~SweepBusy /\ ~SweepBusy')
       /\ (resp' # resp \/ nextId' # nextId \/ DOMAIN notes' # DOMAIN notes)
             => (phase = "serving" /\ missed = {} /\ ~SweepBusy)
      ]_vars

\* A request was answered after a sweep that had sent a reminder
C17_Witness ==
    /\ phase = "serving"
    /\ resp.op = "permanent_delete" /\ resp.status = 200
    /\ log.who = "sweep" /\ log.kind = "sent"
    /\ outbox # <<>>

\* C18 (as stated): each arming of a reminder produces at most one sent
\* notification.  With clients that never update a note, a stored note's
\* has_reminder goes from true to false only when a dispatch has sent its
\* notification; so every send that goes through is for a note whose reminder
\* no other dispatch has sent and cleared meanwhile.
C18_OneNotificationPerArming ==
    [][(log'.kind = "sent") =>
          \A f \in inflight :
             (SendSucceeds(f) /\ f.note \in DOMAIN notes)
                => notes[f.note].has_reminder = TRUE
      ]_vars

\* C19: trash, archive and restore of a stored note leave its has_reminder,
\* reminder_datetime, reminder_email, title and content and the job store as
\* they were; and a timer that fires on time for a trashed or archived note
\* whose has_reminder is true and whose reminder_email is set starts the send
\* of its notification to that address.
C19_FlagsLeaveReminderAlone ==
    [][\A i \in 1..MaxNotes :
          i \in DOMAIN notes =>
             /\ (delete_note(i) \/ archive_note(i) \/ restore_note(i)) =>
                   /\ \A k \in {"has_reminder", "reminder_datetime", "reminder_email",
                                "title", "content"} : notes'[i][k] = notes[i][k]
                   /\ jobs' = jobs
             /\ \A job \in jobs :
                   (/\ job.id = i
                    /\ job.run_date = now
                    /\ \A f \in inflight : ~(f.who = "sched" /\ f.note = i)
                    /\ notes[i].is_trashed \/ notes[i].is_archived
                    /\ notes[i].has_reminder = TRUE
                    /\ notes[i].reminder_email \notin {NoEmail, ""}
                    /\ TimerFire(job))
                   => \E f \in inflight' \ inflight :
                         /\ f.who = "sched" /\ f.note = i
                         /\ f.to = notes[i].reminder_email
      ]_vars

\* A note was put in the trash while armed; it is still armed and its timer is
\* still pending.
C19_Witness ==
    /\ resp = [op |-> "trash", id |-> 1, status |-> 200, body |-> {}]
    /\ 1 \in DOMAIN notes
    /\ notes[1].is_trashed = TRUE
    /\ notes[1].has_reminder = TRUE
    /\ notes[1].reminder_email \in Emails
    /\ notes[1].reminder_datetime > now
    /\ jobs = {[id |-> 1, run_date |-> notes[1].reminder_datetime]}

\* C20 (as stated): in every reachable state every stored note is in exactly
\* one of the answers GET /notes, GET /archives and GET /trash would give.
C20_ViewsPartition ==
    \A i \in DOMAIN notes :
       /\ i \in ActiveRows \/ i \in ArchivedRows \/ i \in TrashedRows
       /\ ~(i \in ActiveRows /\ i \in ArchivedRows)
       /\ ~(i \in ActiveRows /\ i \in TrashedRows)
       /\ ~(i \in ArchivedRows /\ i \in TrashedRows)

\* The same for the notes whose is_archived and is_trashed both hold a value,
\* is_archived = true and is_trashed = true together included.
C20_ViewsPartitionNotNull ==
    \A i \in DOMAIN notes :
       NullableFlags \subseteq DOMAIN notes[i] =>
          /\ i \in ActiveRows \/ i \in ArchivedRows \/ i \in TrashedRows
          /\ ~(i \in ActiveRows /\ i \in ArchivedRows)
          /\ ~(i \in ActiveRows /\ i \in TrashedRows)
          /\ ~(i \in ArchivedRows /\ i \in TrashedRows)

====
